---- MODULE Spec2Model ----
(***************************************************************************)
(* Verification model of the teaching snippets of the repository.          *)
(*                                                                         *)
(* Part I   - the Express error-handling example (excepciones/ejemplo):    *)
(*            middleware pipeline of app.ts, the users router, the         *)
(*            exceptions and the global error handler.                     *)
(* Part II  - the refactored TaskManager of the Clean Code exercise.       *)
(* Part III - the Command pattern example (TextEditor, EditorInvoker).     *)
(* Part IV  - the Observer pattern example (Store and its displays).       *)
(* Part V   - the Proxy pattern example (BankAccount, BankAccountProxy).   *)
(* Part VI  - the order example (Orden and its injected services).         *)
(* Part VII - the Adapter pattern example (AdapterPagosInternacional).     *)
(* Part VIII - the Singleton example (TransactionLogger).                  *)
(*                                                                         *)
(* Every route handler is an `async` function without any `await`, so a    *)
(* request runs from express.json() to the response in one turn of the     *)
(* event loop: one action of the model is one whole request.               *)
(***************************************************************************)
EXTENDS Integers, Sequences, FiniteSets, TLC

VARIABLES
    users,       \* users.routes.ts: the Map<string, User>
    nextUuid,    \* number of user ids uuidv4() has handed out
    now,         \* the latest time `new Date()` returned
    nodeEnv,     \* environment the process was started in
    request,     \* the request handled last
    response,    \* the response sent for it
    lastError,   \* the error that reached errorHandler for it, if any
    clientView,  \* per id not deleted: the user carried by the last successful POST/PUT response
    clientGone,  \* ids for which a DELETE answered 200
    tasks,       \* TaskManager.tasks
    lastCall,    \* the TaskManager call made last and its result
    d,           \* TaskMgr.d, the task list of the original class
    mgrCall,     \* the TaskMgr call made last and its result
    content,         \* TextEditor.content
    history,         \* EditorInvoker.history, the command objects with their backup
    undoneCommands,  \* EditorInvoker.undoneCommands
    edRun,           \* content before each command of the current run of executeCommand calls
    edLast,          \* the invoker call made last and what the caller saw around it
    observers,       \* Store.observers, a Set in insertion order
    prices,          \* Store.prices
    storeCall,       \* the Store call made last and the update() calls it made
    attachCalls,     \* per observer: attach calls since its last detach (2 = two or more)
    detached,        \* observers whose last attach/detach call was a detach
    userRole,        \* BankAccountProxy.userRole
    balance,         \* BankAccount.balance of the proxy's realAccount
    bankCall,        \* the proxy call made last: what it threw, returned and logged
    productos,       \* Orden.productos
    precioTotal,     \* Orden.precioTotal
    estado,          \* Orden.estado
    enVuelo,         \* agregarProducto calls waiting for verificarStock
    ordenPc,         \* the await at which the procesar call is suspended, or "idle"
    ordenIdx,        \* position of the for-of loop the procesar call is in
    validacion,      \* the ValidacionFraude the pending validarOrden resolves to
    invocados,       \* notifiers invoked by the procesar call, in order
    fallidos,        \* notifiers that threw during the procesar call
    resultado,       \* how the procesar call ended: "resolved", "rejected", "" while pending
    pasos,           \* what the services answered to the procesar call, in order
    nInicio,         \* number of products when the procesar call was made
    reducciones,     \* per product entry: reducirStock calls made for it
    llamadas,        \* number of procesar calls made
    microtasks,      \* settled checkAccountBalance promises whose callbacks have not run yet
    fondos,          \* the verificarFondos call made last and what it returned
    saldoTardio,     \* the local saldo of the call whose callback ran last
    loggers,         \* the TransactionLogger objects constructed so far
    instance,        \* TransactionLogger.instance: null or a reference into loggers
    handed,          \* the references getInstance has returned
    getCalls,        \* number of getInstance calls made
    console,         \* the lines the logger printed
    statusUser,      \* the User handed to getUserStatus
    statusNested,    \* what the nested getUserStatus returned for it, "" before the call
    statusSimple, \* what the simplified getUserStatus returned for it, "" before the call
    registry,  \* the imperative TaskManager's tasks array
    nextId,  \* its nextId counter
    removedIds,  \* the ids of the tasks removeTask has taken out so far
    registryCall, \* the call made last on the imperative TaskManager and what it returned
    packages,  \* per ProductPackage object its products array
    callStack,  \* the frames of calculateCommission calls under way, innermost last
    commission  \* the calculateCommission call made last: running, returned its value, or RangeError

usersVars == <<users, nextUuid, now, nodeEnv, request, response, lastError,
               clientView, clientGone>>
tasksVars == <<tasks, lastCall>>
mgrVars == <<d, mgrCall>>
editorVars == <<content, history, undoneCommands, edRun, edLast>>

storeVars == <<observers, prices, storeCall, attachCalls, detached>>

bankVars == <<userRole, balance, bankCall>>

ordenVars == <<productos, precioTotal, estado, enVuelo, ordenPc, ordenIdx,
               validacion, invocados, fallidos, resultado,
               pasos, nInicio, reducciones, llamadas>>

adapterVars == <<microtasks, fondos, saldoTardio>>
loggerVars == <<loggers, instance, handed, getCalls, console>>
statusVars == <<statusUser, statusNested, statusSimple>>
packagesVars == <<packages, callStack, commission>>
registryVars == <<registry, nextId, removedIds, registryCall>>

exceptRegistry ==
    <<usersVars, tasksVars, mgrVars, editorVars, storeVars, bankVars, ordenVars, adapterVars, loggerVars, statusVars,
      packagesVars>>

exceptPackages ==
    <<usersVars, tasksVars, mgrVars, editorVars, storeVars, bankVars, ordenVars, adapterVars, loggerVars, statusVars, registryVars>>

vars == <<usersVars, tasksVars, mgrVars, editorVars, storeVars, bankVars, ordenVars,
          adapterVars, loggerVars, statusVars,
          registryVars,
          packagesVars>>

\* what the actions of one part leave alone
exceptUsers ==
    <<statusVars, mgrVars, tasksVars, editorVars, storeVars, bankVars, ordenVars, adapterVars, loggerVars,
      registryVars,
      packagesVars>>
exceptTasks ==
    <<statusVars, mgrVars, usersVars, editorVars, storeVars, bankVars, ordenVars, adapterVars, loggerVars,
      registryVars,
      packagesVars>>
exceptEditor ==
    <<statusVars, mgrVars, usersVars, tasksVars, storeVars, bankVars, ordenVars, adapterVars, loggerVars,
      registryVars,
      packagesVars>>
exceptStore ==
    <<statusVars, mgrVars, usersVars, tasksVars, editorVars, bankVars, ordenVars, adapterVars, loggerVars,
      registryVars,
      packagesVars>>
exceptBank ==
    <<statusVars, mgrVars, usersVars, tasksVars, editorVars, storeVars, ordenVars, adapterVars, loggerVars,
      registryVars,
      packagesVars>>
exceptOrden ==
    <<statusVars, mgrVars, usersVars, tasksVars, editorVars, storeVars, bankVars, adapterVars, loggerVars,
      registryVars,
      packagesVars>>
exceptAdapter ==
    <<statusVars, mgrVars, usersVars, tasksVars, editorVars, storeVars, bankVars, ordenVars, loggerVars,
      registryVars,
      packagesVars>>
exceptLogger ==
    <<statusVars, mgrVars, usersVars, tasksVars, editorVars, storeVars, bankVars, ordenVars, adapterVars,
      registryVars,
      packagesVars>>
exceptStatus ==
    <<usersVars, tasksVars, mgrVars, editorVars, storeVars, bankVars, ordenVars, adapterVars,
      loggerVars,
      registryVars,
      packagesVars>>
exceptBothTaskManagers ==
    <<statusVars, usersVars, editorVars, storeVars, bankVars, ordenVars, adapterVars, loggerVars,
      registryVars,
      packagesVars>>

(***************************************************************************)
(* Bounds                                                                  *)
(***************************************************************************)
MaxUsers == 2      \* user ids uuidv4() can hand out
MaxTasks == 4      \* length of the task list
MaxContent == 3    \* characters in the editor
MaxHistory == 3    \* commands held by the invoker
MaxBalance == 20000  \* balance of the bank account
MaxProductos == 2  \* products added to the order, those in flight included
MaxProcesar == 2   \* procesar calls on the order
MaxMicrotasks == 2 \* promise callbacks waiting to run
MaxGetInstance == 3  \* calls of TransactionLogger.getInstance
MaxConsole == 4    \* lines printed by the logger
MaxDays == 35      \* days between the last login and today, either way
MaxPackageProducts == 2  \* products held by one package
MaxCallStack == 3  \* frames of calculateCommission that fit on the call stack
MaxNextId == 4     \* ids the imperative TaskManager hands out

(***************************************************************************)
(* JSON values.  A string is a sequence of characters; an array is kept    *)
(* only in the shape that matters here, a one-element array of a string.   *)
(***************************************************************************)
Str(s)    == [k |-> "string", s |-> s]
Arr(s)    == [k |-> "array", s |-> s]
Undefined == [k |-> "undefined", s |-> <<>>]

\* JavaScript truthiness: undefined and "" are falsy, every array is truthy
Falsy(v) == v.k = "undefined" \/ (v.k = "string" /\ v.s = <<>>)

\* a || b
OrElse(a, b) == IF Falsy(a) THEN b ELSE a

\* String(v): an array of one string converts to that string
StringOf(v) == IF v.k = "undefined" THEN <<"u","n","d","e","f","i","n","e","d">> ELSE v.s

\* a === b where b was parsed from the current request: strings compare by
\* value, a freshly parsed array is identical to no stored object
StrictEquals(a, b) == a.k = "string" /\ b.k = "string" /\ a.s = b.s

\* JSON.stringify drops the properties whose value is undefined
Optional == {"traceId", "data", "details"}
Stringify(obj) ==
    [f \in {g \in DOMAIN obj : g \in Optional => obj[g] # Undefined} |-> obj[f]]

(***************************************************************************)
(* emailRegex = /^[^\s@]+@[^\s@]+\.[^\s@]+$/ , applied to String(value)    *)
(***************************************************************************)
Plain(c) == c # " " /\ c # "@"

emailRegexTest(v) ==
    LET s == StringOf(v) IN
    \E i \in 1..Len(s) : \E j \in 1..Len(s) :
        /\ 1 < i /\ i + 1 < j /\ j < Len(s)
        /\ s[i] = "@" /\ s[j] = "."
        /\ \A n \in 1..Len(s) : n # i => Plain(s[n])

(***************************************************************************)
(* Exceptions                                                              *)
(***************************************************************************)
BaseException(status, code, message, details) ==
    [isBase |-> TRUE, status |-> status, code |-> code,
     message |-> message, details |-> details]

NotFoundException(message) == BaseException(404, "NOT_FOUND", message, Undefined)

BadRequestException(message, details) ==
    BaseException(400, "BAD_REQUEST", message, details)

\* what express.json() passes to next() for a body that is not JSON: a
\* SyntaxError carrying its own status 400 and the parser's message
JsonSyntaxError ==
    [isBase |-> FALSE, status |-> 400,
     message |-> <<"Unexpected token } in JSON at position 9">>]

NoError == [isBase |-> FALSE, status |-> 0, message |-> <<>>]

(***************************************************************************)
(* Requests                                                                *)
(***************************************************************************)
UuidPool == <<"u1", "u2", "u3", "u4">>          \* the ids uuidv4() returns for users, in order
UnknownId == "zz"                               \* an id uuidv4() never returns
ReqIds == {UuidPool[i] : i \in 1..MaxUsers} \cup {UnknownId}

TraceUuid == Str(<<"g", "1">>)                  \* what uuidv4() returns for a trace id
NoTraceHeader == {Undefined}                    \* requests without an x-trace-id header
TraceHeaders == {Undefined, Str(<<"t", "1">>)}  \* with and without the header

E1 == <<"a", "@", "b", ".", "c">>
E2 == <<"d", "@", "e", ".", "f">>
BadEmail == <<"a", "@", "b">>
NameA == Str(<<"A">>)
NameB == Str(<<"B">>)

\* req.body after express.json(): an object (Express 4 leaves {} when there is none)
Body(email, name) == [email |-> email, name |-> name]
EmptyBody == Body(Undefined, Undefined)

\* the request bodies tried: fields absent, empty, malformed, valid, and an
\* email sent as a JSON array
Bodies ==
    { EmptyBody,
      Body(Str(<<>>), NameA),  Body(Str(E1), Str(<<>>)),
      Body(Str(E1), Undefined), Body(Undefined, NameB),
      Body(Str(BadEmail), NameA),
      Body(Str(E1), NameA), Body(Str(E2), NameB),
      Body(Arr(E1), NameA) }

\* the bodies tried where only the route taken matters
FewBodies == { EmptyBody, Body(Str(E1), NameA), Body(Str(BadEmail), NameA) }

Req(method, route, id, hdr, body) ==
    [method |-> method, route |-> route, id |-> id, traceHeader |-> hdr, body |-> body]

NoRequest == Req("", "", "", Undefined, EmptyBody)
NoResponse == [sent |-> FALSE]

(***************************************************************************)
(* Middleware                                                              *)
(***************************************************************************)
\* req.traceId = req.headers['x-trace-id'] || uuidv4()
traceMiddleware(req, uuid) == OrElse(req.traceHeader, uuid)

NoHeaders == [h \in {} |-> ""]

\* headers of the response once traceMiddleware and the CORS middleware ran
ResponseHeaders(traceId) ==
    ("x-trace-id" :> traceId)
    @@ ("Access-Control-Allow-Origin" :> "*")
    @@ ("Access-Control-Allow-Headers" :> "Origin, X-Requested-With, Content-Type, Accept, x-trace-id")
    @@ ("Access-Control-Allow-Methods" :> "GET, POST, PUT, DELETE, OPTIONS")

\* res.status(status).json(obj)
Json(status, headers, obj) ==
    [sent |-> TRUE, httpStatus |-> status, headers |-> headers, body |-> Stringify(obj)]

\* res.sendStatus(200): the body is the plain text of the status
SendStatus(status, headers) ==
    [sent |-> TRUE, httpStatus |-> status, headers |-> headers, body |-> [text |-> "OK"]]

\* errorHandler trusting the `status` property of any error
errorHandlerOwnStatus(error, traceId, headers) ==
    LET resp == [traceId |-> traceId,
                 status  |-> error.status,
                 code    |-> IF error.isBase THEN error.code ELSE "INTERNAL_SERVER_ERROR",
                 message |-> IF error.message # <<>> THEN error.message
                             ELSE <<"Error interno del servidor">>,
                 details |-> IF error.isBase THEN error.details ELSE Undefined]
    IN Json(resp.status, headers, resp)

errorHandler(error, traceId, headers) ==
    LET resp == [traceId |-> traceId,
                 status  |-> IF error.isBase THEN error.status ELSE 500,
                 code    |-> IF error.isBase THEN error.code ELSE "INTERNAL_SERVER_ERROR",
                 message |-> IF error.message # <<>> THEN error.message
                             ELSE <<"Error interno del servidor">>,
                 details |-> IF error.isBase THEN error.details ELSE Undefined]
    IN Json(resp.status, headers, resp)

(***************************************************************************)
(* ApiResponseBuilder                                                      *)
(***************************************************************************)
ApiResponseBuilder(traceId) ==
    [traceId |-> traceId, status |-> 200, code |-> "SUCCESS", message |-> <<>>,
     data |-> Undefined, details |-> Undefined]
setStatus(b, status)   == [b EXCEPT !.status = status]
setCode(b, code)       == [b EXCEPT !.code = code]
setMessage(b, message) == [b EXCEPT !.message = message]
setData(b, data)       == [b EXCEPT !.data = data]

Success(traceId, status, code, message, data) ==
    Json(status, ResponseHeaders(traceId),
         setData(setMessage(setCode(setStatus(ApiResponseBuilder(traceId), status), code),
                            message), data))

\* next(error) from a route: the pipeline up to the route has run
Failure(error, traceId) == errorHandler(error, traceId, ResponseHeaders(traceId))

(***************************************************************************)
(* Part I - the application: one action per request                        *)
(***************************************************************************)
Handled(req, resp, error) ==
    /\ request' = req
    /\ response' = resp
    /\ lastError' = error
    /\ UNCHANGED <<nodeEnv, exceptUsers>>

StoreUnchanged == UNCHANGED <<users, nextUuid, clientView, clientGone>>

\* the handler does not call `new Date()`
ClockUnread == UNCHANGED now

\* `new Date()` returns t: the clock never runs backwards
ClockRead(t) == t >= now /\ now' = t

UserNotFound(id) == NotFoundException(<<"Usuario ", id, " no encontrado">>)

\* express.json() fails on a body that is not JSON and calls next(err): Express
\* skips every middleware that is not an error handler, traceMiddleware included
JsonParseFailure(method, hdr) ==
    LET req == Req(method, "*", "", hdr, EmptyBody) IN
    /\ Handled(req, errorHandler(JsonSyntaxError, Undefined, NoHeaders), JsonSyntaxError)
    /\ StoreUnchanged /\ ClockUnread

\* OPTIONS on any path: the CORS middleware answers with res.sendStatus(200)
CorsPreflight(hdr, uuid) ==
    LET req == Req("OPTIONS", "*", "", hdr, EmptyBody)
        traceId == traceMiddleware(req, uuid) IN
    /\ Handled(req, SendStatus(200, ResponseHeaders(traceId)), NoError)
    /\ StoreUnchanged /\ ClockUnread

\* GET /health
Health(hdr, uuid, t) ==
    LET req == Req("GET", "/health", "", hdr, EmptyBody)
        traceId == traceMiddleware(req, uuid) IN
    /\ ClockRead(t)
    /\ Handled(req,
               Json(200, ResponseHeaders(traceId),
                    [traceId |-> traceId, status |-> 200, code |-> "HEALTH_CHECK",
                     message |-> <<"Servicio funcionando correctamente">>,
                     data |-> [timestamp |-> t]]),
               NoError)
    /\ StoreUnchanged

\* any other path: next(new NotFoundException('Ruta no encontrada'))
RouteNotFound(hdr, uuid) ==
    LET req == Req("GET", "/other", "", hdr, EmptyBody)
        traceId == traceMiddleware(req, uuid)
        error == NotFoundException(<<"Ruta no encontrada">>) IN
    /\ Handled(req, Failure(error, traceId), error)
    /\ StoreUnchanged /\ ClockUnread

\* GET /api/users/:id
GetUser(id, hdr, uuid) ==
    LET req == Req("GET", "/api/users/:id", id, hdr, EmptyBody)
        traceId == traceMiddleware(req, uuid) IN
    /\ IF id \notin DOMAIN users
       THEN Handled(req, Failure(UserNotFound(id), traceId), UserNotFound(id))
       ELSE Handled(req,
                    Success(traceId, 200, "USER_FOUND",
                            <<"Usuario encontrado exitosamente">>, users[id]),
                    NoError)
    /\ StoreUnchanged /\ ClockUnread

\* Array.from(users.values()): a Map iterates in insertion order, and ids are
\* inserted in the order of UuidPool
UserList ==
    LET ids == SelectSeq(UuidPool, LAMBDA id : id \in DOMAIN users)
    IN [items |-> [i \in 1..Len(ids) |-> users[ids[i]]]]

\* GET /api/users
GetUsers(hdr, uuid) ==
    LET req == Req("GET", "/api/users", "", hdr, EmptyBody)
        traceId == traceMiddleware(req, uuid) IN
    /\ Handled(req,
               Success(traceId, 200, "USERS_FOUND",
                       <<"Usuarios recuperados exitosamente">>, UserList),
               NoError)
    /\ StoreUnchanged /\ ClockUnread

\* the filter left out: both fields reported whatever the body holds
MissingFieldsAll(body) == <<"email", "name">>

\* ['email', 'name'].filter(field => !req.body[field])
MissingFields(body) == SelectSeq(<<"email", "name">>, LAMBDA field : Falsy(body[field]))

\* Array.from(users.values()).some(user => user.email === email)
EmailExists(email) == \E id \in DOMAIN users : StrictEquals(users[id].email, email)

\* ... .some(user => user.email === email && user.id !== userId)
EmailExistsElsewhere(email, userId) ==
    \E id \in DOMAIN users :
        StrictEquals(users[id].email, email) /\ users[id].id # userId

\* the validations of POST /api/users, in the order of the code
PostError(body) ==
    IF Falsy(body.email) \/ Falsy(body.name)
    THEN BadRequestException(<<"Email y nombre son requeridos">>,
                             [missing_fields |-> MissingFields(body)])
    ELSE IF ~emailRegexTest(body.email)
    THEN BadRequestException(<<"Formato de email invalido">>, Undefined)
    ELSE IF EmailExists(body.email)
    THEN BadRequestException(<<"El email ya esta registrado">>, Undefined)
    ELSE NoError

\* POST /api/users
PostUser(hdr, uuid, body, t) ==
    LET req == Req("POST", "/api/users", "", hdr, body)
        traceId == traceMiddleware(req, uuid)
        error == PostError(body)
        newUser == [id |-> UuidPool[nextUuid + 1], name |-> body.name,
                    email |-> body.email, createdAt |-> t]
        resp == Success(traceId, 201, "USER_CREATED",
                        <<"Usuario creado exitosamente">>, newUser)
    IN
    IF error # NoError
    THEN /\ Handled(req, Failure(error, traceId), error)
         /\ StoreUnchanged /\ ClockUnread
    ELSE /\ nextUuid < MaxUsers
         /\ ClockRead(t)
         /\ users' = (newUser.id :> newUser) @@ users
         /\ nextUuid' = nextUuid + 1
         /\ Handled(req, resp, NoError)
         /\ clientView' = (newUser.id :> resp.body.data) @@ clientView
         /\ UNCHANGED clientGone

\* PUT validating the body before looking the user up
PutErrorBodyFirst(userId, body) ==
    IF Falsy(body.email) /\ Falsy(body.name)
    THEN BadRequestException(<<"Se requiere al menos un campo para actualizar">>, Undefined)
    ELSE IF ~Falsy(body.email) /\ ~emailRegexTest(body.email)
    THEN BadRequestException(<<"Formato de email invalido">>, Undefined)
    ELSE IF userId \notin DOMAIN users
    THEN UserNotFound(userId)
    ELSE IF ~Falsy(body.email) /\ EmailExistsElsewhere(body.email, userId)
    THEN BadRequestException(<<"El email ya esta registrado">>, Undefined)
    ELSE NoError

\* the validations of PUT /api/users/:id, in the order of the code
PutError(userId, body) ==
    IF userId \notin DOMAIN users
    THEN UserNotFound(userId)
    ELSE IF Falsy(body.email) /\ Falsy(body.name)
    THEN BadRequestException(<<"Se requiere al menos un campo para actualizar">>, Undefined)
    ELSE IF ~Falsy(body.email) /\ ~emailRegexTest(body.email)
    THEN BadRequestException(<<"Formato de email invalido">>, Undefined)
    ELSE IF ~Falsy(body.email) /\ EmailExistsElsewhere(body.email, userId)
    THEN BadRequestException(<<"El email ya esta registrado">>, Undefined)
    ELSE NoError

\* an update that builds the user anew: { id, name, email, createdAt: new Date() }
UpdatedUserRebuilt(existingUser, body) ==
    [id |-> existingUser.id,
     name |-> OrElse(body.name, existingUser.name),
     email |-> OrElse(body.email, existingUser.email),
     createdAt |-> now]

\* { ...existingUser, name: name || existingUser.name, email: email || existingUser.email }
UpdatedUser(existingUser, body) ==
    [existingUser EXCEPT
        !.name = OrElse(body.name, existingUser.name),
        !.email = OrElse(body.email, existingUser.email)]

\* PUT /api/users/:id
PutUser(userId, hdr, uuid, body) ==
    LET req == Req("PUT", "/api/users/:id", userId, hdr, body)
        traceId == traceMiddleware(req, uuid)
        error == PutError(userId, body)
        existingUser == users[userId]
        updatedUser == UpdatedUser(existingUser, body)
        resp == Success(traceId, 200, "USER_UPDATED",
                        <<"Usuario actualizado exitosamente">>, updatedUser)
    IN
    IF error # NoError
    THEN /\ Handled(req, Failure(error, traceId), error)
         /\ StoreUnchanged /\ ClockUnread
    ELSE /\ users' = [users EXCEPT ![userId] = updatedUser]
         /\ Handled(req, resp, NoError)
         /\ clientView' = [clientView EXCEPT ![userId] = resp.body.data]
         /\ UNCHANGED <<nextUuid, clientGone, now>>

\* a delete that answers but removes nothing
WithoutUserKept(userId) == users

\* users.delete(userId)
WithoutUser(userId) == [id \in DOMAIN users \ {userId} |-> users[id]]

\* DELETE /api/users/:id
DeleteUser(userId, hdr, uuid, body) ==
    LET req == Req("DELETE", "/api/users/:id", userId, hdr, body)
        traceId == traceMiddleware(req, uuid)
    IN
    IF userId \notin DOMAIN users
    THEN /\ Handled(req, Failure(UserNotFound(userId), traceId), UserNotFound(userId))
         /\ StoreUnchanged /\ ClockUnread
    ELSE /\ users' = WithoutUser(userId)
         /\ Handled(req,
                    Json(200, ResponseHeaders(traceId),
                         setMessage(setCode(setStatus(ApiResponseBuilder(traceId), 200),
                                            "USER_DELETED"),
                                    <<"Usuario eliminado exitosamente">>)),
                    NoError)
         /\ clientView' = [id \in DOMAIN clientView \ {userId} |-> clientView[id]]
         /\ clientGone' = clientGone \cup {userId}
         /\ UNCHANGED <<nextUuid, now>>

Times == {0, 1}             \* the instants at which `new Date()` is read: an earlier and a later one

InitUsers ==
    /\ users = [id \in {} |-> Undefined]
    /\ nextUuid = 0
    /\ now = 0
    /\ request = NoRequest
    /\ response = NoResponse
    /\ lastError = NoError
    /\ clientView = [id \in {} |-> Undefined]
    /\ clientGone = {}

\* new TaskMgr()
InitMgr ==
    /\ d = <<>>
    /\ mgrCall = [op |-> "new"]

InitTasks ==
    /\ tasks = <<>>
    /\ lastCall = [op |-> "new"]

\* new TextEditor(), new EditorInvoker()
InitEditor ==
    /\ content = <<>>
    /\ history = <<>>
    /\ undoneCommands = <<>>
    /\ edRun = <<>>
    /\ edLast = [op |-> "new", did |-> FALSE, inRun |-> FALSE, base |-> <<>>,
                 afterUndo |-> FALSE, beforeUndo |-> <<>>, cleared |-> FALSE]

\* the displays of the example, the products and prices passed to updatePrice
Observers == {"consoleDisplay", "mobileApp", "webDisplay"}
Products == {"Laptop", "Phone"}
Prices == {1, 2}

\* new Store()
InitStore ==
    /\ observers = <<>>
    /\ prices = <<>>
    /\ storeCall = [op |-> "new", updates |-> <<>>]
    /\ attachCalls = [o \in Observers |-> 0]
    /\ detached = {}

\* what a proxy call that has not thrown, returned or logged looks like
NoBankCall == [op |-> "new", amount |-> 0, error |-> "", returned |-> FALSE,
               value |-> 0, log |-> <<>>]

\* const accountProxy = new BankAccountProxy("admin")
InitBank ==
    /\ userRole = "admin"
    /\ balance = 0
    /\ bankCall = NoBankCall

\* enum EstadoOrden
CREADA == "CREADA"
PROCESADA == "PROCESADA"
ERROR == "ERROR"

\* new ValidacionFraude(esValida, motivo?)
ValidacionFraude(esValida, motivo) == [esValida |-> esValida, motivo |-> motivo]

\* new Orden("ORD-001", ..., notificadores, ...)
InitOrden ==
    /\ productos = <<>>
    /\ precioTotal = 0
    /\ estado = CREADA
    /\ enVuelo = {}
    /\ ordenPc = "idle"
    /\ ordenIdx = 0
    /\ validacion = ValidacionFraude(TRUE, "")
    /\ invocados = <<>>
    /\ fallidos = {}
    /\ resultado = ""
    /\ pasos = <<>>
    /\ nInicio = 0
    /\ reducciones = [i \in 1..MaxProductos |-> 0]
    /\ llamadas = 0

\* a verificarFondos call: the account, what checkAccountBalance settled with
\* (fulfilled with balance, or rejected) and the number returned to the caller
Fondos(cuenta, fulfilled, reported, returned) ==
    [op |-> "verificarFondos", cuenta |-> cuenta, fulfilled |-> fulfilled,
     balance |-> reported, returned |-> returned]

\* new AdapterPagosInternacional(sistemaPagosInternacional)
InitAdapter ==
    /\ microtasks = <<>>
    /\ fondos = [Fondos("", FALSE, 0, 0) EXCEPT !.op = "new"]
    /\ saldoTardio = [cuenta |-> "", saldo |-> 0]

\* the null reference
Null == 0

\* the class TransactionLogger is loaded: private static instance = null
InitLogger ==
    /\ loggers = <<>>
    /\ instance = Null
    /\ handed = {}
    /\ getCalls = 0
    /\ console = <<>>

\* a User: lastLoginDate is absent, or it lies `days` days back
User(hasLastLogin, days, isSubscribed, subscriptionType) ==
    [hasLastLogin |-> hasLastLogin, days |-> days, isSubscribed |-> isSubscribed,
     subscriptionType |-> subscriptionType]

InitStatus ==
    /\ statusUser = User(FALSE, 0, FALSE, "basic")
    /\ statusNested = ""
    /\ statusSimple = ""

InitRegistry ==
    /\ registry = <<>>
    /\ nextId = 1
    /\ removedIds = {}
    /\ registryCall = [op |-> "new", id |-> 0, result |-> FALSE]

InitPackages ==
    /\ packages = [p \in {"basicPackage", "premiumPackage"} |-> <<>>]
    /\ callStack = <<>>
    /\ commission = [state |-> "idle", of |-> "", value |-> 0]

InitAll ==
    /\ InitUsers /\ InitTasks /\ InitMgr /\ InitEditor /\ InitStore /\ InitBank /\ InitOrden
    /\ InitAdapter /\ InitLogger /\ InitStatus /\ InitRegistry /\ InitPackages

Init == InitAll /\ nodeEnv = "development"

\* any request to the application, its trace header and body drawn from the given sets
Requests(hdrs, bodies) ==
    \/ \E m \in {"POST", "PUT"}, hdr \in hdrs : JsonParseFailure(m, hdr)
    \/ \E hdr \in hdrs : CorsPreflight(hdr, TraceUuid)
    \/ \E hdr \in hdrs, t \in Times : Health(hdr, TraceUuid, t)
    \/ \E hdr \in hdrs : RouteNotFound(hdr, TraceUuid)
    \/ \E id \in ReqIds, hdr \in hdrs : GetUser(id, hdr, TraceUuid)
    \/ \E hdr \in hdrs : GetUsers(hdr, TraceUuid)
    \/ \E hdr \in hdrs, body \in bodies, t \in Times : PostUser(hdr, TraceUuid, body, t)
    \/ \E id \in ReqIds, hdr \in hdrs, body \in bodies : PutUser(id, hdr, TraceUuid, body)
    \/ \E id \in ReqIds, hdr \in hdrs, body \in {EmptyBody, Body(Str(E1), NameA)} :
           DeleteUser(id, hdr, TraceUuid, body)

\* the users API under every body of Bodies
NextUsers == Requests(NoTraceHeader, Bodies)
SpecUsers == Init /\ [][NextUsers]_vars

\* the middleware pipeline under every trace header, in either environment
InitPipeline == InitAll /\ nodeEnv \in {"development", "production"}
NextPipeline == Requests(TraceHeaders, FewBodies)
SpecPipeline == InitPipeline /\ [][NextPipeline]_vars

(***************************************************************************)
(* Claims about the users API                                              *)
(***************************************************************************)
IsPut    == request.method = "PUT" /\ request.route = "/api/users/:id"
IsDelete == request.method = "DELETE" /\ request.route = "/api/users/:id"
IsPost   == request.method = "POST" /\ request.route = "/api/users"
IsGetOne == request.method = "GET" /\ request.route = "/api/users/:id"

\* C1: after any sequence of POST, PUT and DELETE requests no two users of
\* the store have the same email.
C1_UniqueEmails ==
    \A a \in DOMAIN users : \A b \in DOMAIN users :
        a # b => users[a].email # users[b].email

Lacks(body, field) == body[field] = Undefined \/ body[field] = Str(<<>>)
Range(seq) == {seq[i] : i \in 1..Len(seq)}

\* C3: a POST whose body lacks email or name is rejected with 400 and code
\* BAD_REQUEST, details.missing_fields lists exactly the lacking fields, and
\* no user is added.
C3_MissingFieldsRejected ==
    [][ (IsPost' /\ (Lacks(request'.body, "email") \/ Lacks(request'.body, "name")))
        => /\ response'.httpStatus = 400
           /\ response'.body.status = 400
           /\ response'.body.code = "BAD_REQUEST"
           /\ Range(response'.body.details.missing_fields)
                = {f \in {"email", "name"} : Lacks(request'.body, f)}
           /\ Len(response'.body.details.missing_fields)
                = Cardinality({f \in {"email", "name"} : Lacks(request'.body, f)})
           /\ users' = users ]_vars

\* a POST with an email and no name, answered with missing_fields = ['name']
C3_Witness ==
    /\ IsPost /\ request.body = Body(Str(E1), Undefined)
    /\ response.sent /\ response.httpStatus = 400
    /\ response.body.details.missing_fields = <<"name">>
    /\ DOMAIN users # {}

\* C4: once a POST returned a user with id X, every GET of X answers 200 with
\* that user as the successful PUTs on X left it, until a DELETE of X
\* succeeds; from then on GET of X answers 404 NOT_FOUND.
C4_GetFollowsPostPutDelete ==
    IsGetOne =>
        /\ request.id \in DOMAIN clientView =>
              /\ response.httpStatus = 200
              /\ response.body.status = 200
              /\ response.body.data = clientView[request.id]
        /\ request.id \in clientGone =>
              /\ response.httpStatus = 404
              /\ response.body.code = "NOT_FOUND"

\* a GET of a user whose email and name come from two different requests (the
\* bodies pair E2 with name B), after another user was deleted
C4_Witness ==
    /\ IsGetOne /\ request.id \in DOMAIN clientView
    /\ response.sent /\ response.httpStatus = 200
    /\ response.body.data.email = Str(E2) /\ response.body.data.name = NameA
    /\ clientGone # {}

(***************************************************************************)
(* Claims about the middleware pipeline                                    *)
(***************************************************************************)
\* C5: an error reaching errorHandler is answered with its own status (as
\* HTTP status and in the body) and its own code when it is a BaseException,
\* and with 500 and INTERNAL_SERVER_ERROR otherwise.
C5_ErrorStatusAndCode ==
    lastError # NoError =>
        IF lastError.isBase
        THEN /\ response.httpStatus = lastError.status
             /\ response.body.status = lastError.status
             /\ response.body.code = lastError.code
             /\ <<lastError.status, lastError.code>> \in
                    {<<400, "BAD_REQUEST">>, <<404, "NOT_FOUND">>}
        ELSE /\ response.httpStatus = 500
             /\ response.body.status = 500
             /\ response.body.code = "INTERNAL_SERVER_ERROR"

\* an error that is no BaseException and carries a status of its own
C5_Witness ==
    /\ lastError # NoError /\ ~lastError.isBase /\ lastError.status = 400
    /\ response.sent /\ response.httpStatus = 500

\* C6: every response sent has the standardized body: traceId, status, code
\* and message.
C6_StandardBody ==
    response.sent => {"traceId", "status", "code", "message"} \subseteq DOMAIN response.body

\* C7: the x-trace-id response header and the traceId of the body are the same
\* non-empty value, which is the request's x-trace-id header when it had one.
C7_SameTraceId ==
    response.sent =>
        /\ "x-trace-id" \in DOMAIN response.headers
        /\ "traceId" \in DOMAIN response.body
        /\ response.headers["x-trace-id"] = response.body.traceId
        /\ ~Falsy(response.body.traceId)
        /\ request.traceHeader # Undefined => response.body.traceId = request.traceHeader

\* C8: in production the answer to an error that is no BaseException does not
\* expose the error's own message.
C8_NoInternalMessageInProduction ==
    (nodeEnv = "production" /\ lastError # NoError /\ ~lastError.isBase)
        => response.body.message # lastError.message

\* C27: every entry of the users store is kept under the id of its user, and
\* a PUT that answers 200 leaves the id and createdAt of its user and every
\* other entry of the store as they were.
C27_PutKeepsIdentity ==
    /\ [](\A key \in DOMAIN users : users[key].id = key)
    /\ [][(IsPut' /\ response'.httpStatus = 200)
            => /\ DOMAIN users' = DOMAIN users
               /\ users'[request'.id].id = users[request'.id].id
               /\ users'[request'.id].createdAt = users[request'.id].createdAt
               /\ \A key \in DOMAIN users \ {request'.id} : users'[key] = users[key]]_vars

\* a PUT that changed the name of one of two stored users, created at different times
C27_Witness ==
    /\ IsPut /\ response.sent /\ response.httpStatus = 200
    /\ Cardinality(DOMAIN users) = 2
    /\ \E a \in DOMAIN users : \E b \in DOMAIN users : users[a].createdAt # users[b].createdAt
    /\ users[request.id].name = request.body.name

(***************************************************************************)
(* Part II - the refactored TaskManager                                    *)
(***************************************************************************)
PENDING == "pending"
COMPLETED == "completed"

Titles == {"Task 1", "Task 2"}
\* Math.random().toString(36).substr(2, 9): some string, not necessarily a new one
GeneratedIds == {"k3x", "p7q"}
NonExistentId == "non-existent-id"

\* a task built with the priority flag of the call lost
NewTaskNoPriority(id, title, isPriority) ==
    [id |-> id, title |-> title, isPriority |-> FALSE, status |-> PENDING, createdAt |-> now]

\* const newTask: Task = { id: this.generateId(), title, isPriority, status, createdAt }
NewTask(id, title, isPriority) ==
    [id |-> id, title |-> title, isPriority |-> isPriority, status |-> PENDING,
     createdAt |-> now]

\* every task pushed to the end, priority or not
InsertAtEnd(list, newTask) == Append(list, newTask)

\* isPriority ? this.tasks.unshift(newTask) : this.tasks.push(newTask)
Insert(list, newTask) ==
    IF newTask.isPriority THEN <<newTask>> \o list ELSE Append(list, newTask)

\* addTask(title, isPriority), generateId() returning id: what it does to the manager
addTaskCall(title, isPriority, id) ==
    /\ Len(tasks) < MaxTasks
    /\ tasks' = Insert(tasks, NewTask(id, title, isPriority))
    /\ lastCall' = [op |-> "addTask", title |-> title, isPriority |-> isPriority,
                    result |-> TRUE]

addTask(title, isPriority, id) ==
    /\ addTaskCall(title, isPriority, id)
    /\ UNCHANGED exceptTasks

\* a search that starts at the second task
FindFromSecond(taskId) ==
    IF \E i \in 2..Len(tasks) : tasks[i].id = taskId
    THEN CHOOSE i \in 2..Len(tasks) :
            /\ tasks[i].id = taskId
            /\ \A j \in 2..(i - 1) : tasks[j].id # taskId
    ELSE 0

\* this.tasks.find(task => task.id === taskId): the index of the first match, 0 if none
Find(taskId) ==
    IF \E i \in 1..Len(tasks) : tasks[i].id = taskId
    THEN CHOOSE i \in 1..Len(tasks) :
            /\ tasks[i].id = taskId
            /\ \A j \in 1..(i - 1) : tasks[j].id # taskId
    ELSE 0

\* completeTask(taskId): what it does to the manager
completeTaskCall(taskId) ==
    /\ tasks' = IF Find(taskId) # 0
                THEN [tasks EXCEPT ![Find(taskId)].status = COMPLETED]
                ELSE tasks
    /\ lastCall' = [op |-> "completeTask", taskId |-> taskId, result |-> Find(taskId) # 0]

completeTask(taskId) ==
    /\ completeTaskCall(taskId)
    /\ UNCHANGED exceptTasks

\* getAllTasks()
getAllTasks == tasks

NextTasks ==
    \/ \E title \in Titles, isPriority \in BOOLEAN, id \in GeneratedIds :
           addTask(title, isPriority, id)
    \/ \E taskId \in GeneratedIds \cup {NonExistentId} : completeTask(taskId)

SpecTasks == Init /\ [][NextTasks]_vars

(***************************************************************************)
(* Claims about the TaskManager                                            *)
(***************************************************************************)
\* C9: after any sequence of addTask calls every priority task comes before
\* every task that is not a priority one in getAllTasks().
C9_PriorityFirst ==
    \A i \in 1..Len(getAllTasks) : \A j \in 1..Len(getAllTasks) :
        (getAllTasks[i].isPriority /\ ~getAllTasks[j].isPriority) => i < j

\* a priority task added after two normal ones
C9_Witness ==
    /\ lastCall.op = "addTask" /\ lastCall.isPriority
    /\ Len(tasks) = 3
    /\ ~tasks[2].isPriority /\ ~tasks[3].isPriority

\* the list without its k-th element
Without(list, k) == SubSeq(list, 1, k - 1) \o SubSeq(list, k + 1, Len(list))

\* C10: addTask returns true and grows the list by exactly one task, which has
\* the given title and isPriority and status PENDING; the tasks stored before
\* keep their fields and their relative order.
C10_AddTaskAddsOne ==
    [][ lastCall'.op = "addTask"
        => /\ lastCall'.result = TRUE
           /\ Len(tasks') = Len(tasks) + 1
           /\ \E k \in 1..Len(tasks') :
                 /\ tasks'[k].title = lastCall'.title
                 /\ tasks'[k].isPriority = lastCall'.isPriority
                 /\ tasks'[k].status = PENDING
                 /\ Without(tasks', k) = tasks ]_vars

\* a priority task added in front of a completed task and another one
C10_Witness ==
    /\ lastCall.op = "addTask" /\ lastCall.isPriority
    /\ Len(tasks) = 3
    /\ tasks[1].status = PENDING
    /\ tasks[2].status = COMPLETED
    /\ tasks[2].title # tasks[3].title

\* C11: completeTask returns true exactly when a task with the id is stored;
\* then a task with that id is COMPLETED afterwards and no other task changes;
\* otherwise it returns false and no task changes.
C11_CompleteTask ==
    [][ lastCall'.op = "completeTask"
        => LET stored == \E i \in 1..Len(tasks) : tasks[i].id = lastCall'.taskId IN
           /\ lastCall'.result = stored
           /\ stored => \E k \in 1..Len(tasks) :
                           /\ tasks[k].id = lastCall'.taskId
                           /\ tasks' = [tasks EXCEPT ![k].status = COMPLETED]
           /\ ~stored => tasks' = tasks ]_vars

\* a successful completeTask on a list of three tasks: one completed, the others pending
C11_Witness ==
    /\ lastCall.op = "completeTask" /\ lastCall.result
    /\ Len(tasks) = 3
    /\ \E k \in 1..3 :
          /\ tasks[k].id = lastCall.taskId /\ tasks[k].status = COMPLETED
          /\ \A i \in 1..3 : i # k => tasks[i].status = PENDING

\* C12: after any sequence of addTask calls all tasks of a TaskManager have
\* pairwise distinct ids.
C12_UniqueTaskIds ==
    \A i \in 1..Len(tasks) : \A j \in 1..Len(tasks) :
        i # j => tasks[i].id # tasks[j].id

(***************************************************************************)
(* Part II b - the original TaskMgr, driven with the same calls as the     *)
(* refactored TaskManager: add(t) next to addTask(t.title, t.p), done(i)   *)
(* next to completeTask(i), Math.random() giving both the same id.         *)
(***************************************************************************)

\* the titles of the calls compared; '' is a string like any other
ComparedTitles == {"", "Tarea 1"}

\* { ...t, id: Math.random().toString(), st: "pending", ct: new Date() }
MgrTask(t, id) == [title |-> t.title, p |-> t.p, id |-> id, st |-> "pending", ct |-> now]

\* TaskMgr.add(t), Math.random() giving id
add(t, id) ==
    IF t.title = ""
    THEN /\ mgrCall' = [op |-> "add", result |-> FALSE]
         /\ UNCHANGED d
    ELSE /\ d' = IF t.p = TRUE THEN <<MgrTask(t, id)>> \o d ELSE Append(d, MgrTask(t, id))
         /\ mgrCall' = [op |-> "add", result |-> TRUE]

\* this.d.find(x => x.id === i): the index of the first match, 0 if none
MgrFind(i) ==
    IF \E k \in 1..Len(d) : d[k].id = i
    THEN CHOOSE k \in 1..Len(d) : d[k].id = i /\ \A j \in 1..(k - 1) : d[j].id # i
    ELSE 0

\* TaskMgr.done(i)
done(i) ==
    /\ d' = IF MgrFind(i) # 0 THEN [d EXCEPT ![MgrFind(i)].st = "completed"] ELSE d
    /\ mgrCall' = [op |-> "done", result |-> MgrFind(i) # 0]

\* the same add on both classes
addOnBoth(title, isPriority, id) ==
    /\ add([title |-> title, p |-> isPriority], id)
    /\ addTaskCall(title, isPriority, id)
    /\ UNCHANGED exceptBothTaskManagers

\* the same complete on both classes
completeOnBoth(taskId) ==
    /\ done(taskId)
    /\ completeTaskCall(taskId)
    /\ UNCHANGED exceptBothTaskManagers

NextRefactor ==
    \/ \E title \in ComparedTitles, isPriority \in BOOLEAN, id \in GeneratedIds :
           addOnBoth(title, isPriority, id)
    \/ \E taskId \in GeneratedIds \cup {NonExistentId} : completeOnBoth(taskId)

SpecRefactor == Init /\ [][NextRefactor]_vars

\* C25: after the same calls TaskMgr and TaskManager have returned the same
\* boolean and hold lists with the same titles, priority flags and statuses in
\* the same order.
C25_SameBehaviour ==
    /\ mgrCall.op # "new" => mgrCall.result = lastCall.result
    /\ Len(d) = Len(tasks)
    /\ \A k \in 1..Len(d) :
          /\ d[k].title = tasks[k].title
          /\ d[k].p = tasks[k].isPriority
          /\ d[k].st = tasks[k].status

(***************************************************************************)
(* Part III - the Command pattern: TextEditor, TypeCommand, DeleteCommand  *)
(* and EditorInvoker.  Strings are sequences of characters.                *)
(***************************************************************************)

Min(a, b) == IF a < b THEN a ELSE b
Max(a, b) == IF a > b THEN a ELSE b

\* String.prototype.slice(start, end): a negative index counts from the end,
\* both are clamped to the string, and -0 is 0
Slice(str, start, end) ==
    LET len  == Len(str)
        from == IF start < 0 THEN Max(len + start, 0) ELSE Min(start, len)
        to   == IF end < 0 THEN Max(len + end, 0) ELSE Min(end, len)
    IN  SubSeq(str, from + 1, to)

\* TextEditor.insertText: this.content += text
insertText(str, text) == str \o text

\* TextEditor.deleteText: this.content = this.content.slice(0, -length)
deleteText(str, length) == Slice(str, 0, -length)

\* the arguments the commands are built with
TypeTexts == {<<>>, <<"a">>, <<"b", "c">>}
DeleteLengths == {0, 1, 3}

\* new TypeCommand(editor, text), new DeleteCommand(editor, length)
TypeCommand(text) == [type |-> "Type", text |-> text, length |-> 0, backup |-> <<>>]
DeleteCommand(length) == [type |-> "Delete", text |-> <<>>, length |-> length, backup |-> <<>>]

Commands == {TypeCommand(t) : t \in TypeTexts} \cup {DeleteCommand(n) : n \in DeleteLengths}

\* command.execute(): the command object afterwards, and the content afterwards
Executed(command, str) == [command EXCEPT !.backup = str]

ExecuteContent(command, str) ==
    IF command.type = "Type" THEN insertText(str, command.text)
    ELSE deleteText(str, command.length)

\* command.undo(): the content afterwards
UndoContent(command, str) ==
    IF command.type = "Type" THEN deleteText(str, Len(command.text))
    ELSE insertText(str, Slice(command.backup, -command.length, Len(command.backup)))

Last(seq) == seq[Len(seq)]
Front(seq) == SubSeq(seq, 1, Len(seq) - 1)

NoEdit == [did |-> FALSE, inRun |-> FALSE, base |-> <<>>, afterUndo |-> FALSE,
           beforeUndo |-> <<>>, cleared |-> FALSE]

\* an executeCommand that leaves the redo stack as it is
executeCommandKeepingRedo(command) ==
    /\ Len(history) < MaxHistory
    /\ Len(ExecuteContent(command, content)) <= MaxContent
    /\ content' = ExecuteContent(command, content)
    /\ history' = Append(history, Executed(command, content))
    /\ UNCHANGED undoneCommands
    /\ edRun' = IF edLast.op = "executeCommand" THEN Append(edRun, content) ELSE <<content>>
    /\ edLast' = [NoEdit EXCEPT !.did = TRUE, !.cleared = undoneCommands # <<>>]
                 @@ [op |-> "executeCommand"]
    /\ UNCHANGED exceptEditor

\* invoker.executeCommand(command), with a command object made for this call
executeCommand(command) ==
    /\ Len(history) < MaxHistory
    /\ Len(ExecuteContent(command, content)) <= MaxContent
    /\ content' = ExecuteContent(command, content)
    /\ history' = Append(history, Executed(command, content))
    /\ undoneCommands' = <<>>
    /\ edRun' = IF edLast.op = "executeCommand" THEN Append(edRun, content) ELSE <<content>>
    /\ edLast' = [NoEdit EXCEPT !.did = TRUE, !.cleared = undoneCommands # <<>>]
                 @@ [op |-> "executeCommand"]
    /\ UNCHANGED exceptEditor

\* invoker.undo()
undo ==
    /\ IF history # <<>>
       THEN /\ content' = UndoContent(Last(history), content)
            /\ history' = Front(history)
            /\ undoneCommands' = Append(undoneCommands, Last(history))
            /\ edRun' = IF edRun # <<>> THEN Front(edRun) ELSE edRun
            /\ edLast' = [op |-> "undo", did |-> TRUE, inRun |-> edRun # <<>>,
                          base |-> IF edRun # <<>> THEN Last(edRun) ELSE <<>>,
                          afterUndo |-> FALSE, beforeUndo |-> content, cleared |-> FALSE]
       ELSE /\ UNCHANGED <<content, history, undoneCommands, edRun>>
            /\ edLast' = NoEdit @@ [op |-> "undo"]
    /\ UNCHANGED exceptEditor

\* invoker.redo()
redo ==
    /\ IF undoneCommands # <<>>
       THEN /\ content' = ExecuteContent(Last(undoneCommands), content)
            /\ history' = Append(history, Executed(Last(undoneCommands), content))
            /\ undoneCommands' = Front(undoneCommands)
            /\ edLast' = [op |-> "redo", did |-> TRUE, inRun |-> FALSE, base |-> <<>>,
                          afterUndo |-> edLast.op = "undo" /\ edLast.did,
                          beforeUndo |-> IF edLast.op = "undo" THEN edLast.beforeUndo ELSE <<>>,
                          cleared |-> edLast.op = "executeCommand" /\ edLast.cleared]
       ELSE /\ UNCHANGED <<content, history, undoneCommands>>
            /\ edLast' = [NoEdit EXCEPT !.cleared = edLast.op = "executeCommand" /\ edLast.cleared]
                         @@ [op |-> "redo"]
    /\ edRun' = <<>>
    /\ UNCHANGED exceptEditor

NextEditor ==
    \/ \E command \in Commands : executeCommand(command)
    \/ undo
    \/ redo

SpecEditor == Init /\ [][NextEditor]_vars

\* C13: after n commands run through executeCommand, the k-th of the n undo()
\* calls that follow leaves the content the editor had before the command it
\* undoes; the last of them leaves the content from before the first command.
C13_UndoRestores ==
    (edLast.op = "undo" /\ edLast.inRun) => content = edLast.base

\* C14: when undo() undoes a command and redo() is the next call, the content
\* after the redo is the content from just before that undo.
C14_RedoReapplies ==
    (edLast.op = "redo" /\ edLast.afterUndo) => content = edLast.beforeUndo

\* C24: a redo() that comes right after an executeCommand does nothing: the
\* content, the history and the (empty) redo stack stay as they are, also when
\* undone commands were waiting before that executeCommand.
C24_ExecuteClearsRedo ==
    [][(edLast.op = "executeCommand" /\ edLast'.op = "redo")
        => /\ content' = content
           /\ history' = history
           /\ undoneCommands' = <<>>
           /\ ~edLast'.did]_vars

\* undos, then a new command, then a redo that found nothing to do
C24_Witness ==
    /\ edLast.op = "redo" /\ edLast.cleared /\ ~edLast.did
    /\ content # <<>> /\ undoneCommands = <<>>

(***************************************************************************)
(* Part IV - the Observer pattern: Store keeps its observers in a Set and  *)
(* its prices in a Map; the displays only print what they receive.         *)
(***************************************************************************)

\* Array.prototype.push, what attach would do with an array of observers
ArrayPush(set, value) == Append(set, value)

\* Set.prototype.add: a value already in the set is not added again
SetAdd(set, value) ==
    IF \E i \in 1..Len(set) : set[i] = value THEN set ELSE Append(set, value)

\* Set.prototype.delete
SetDelete(set, value) == SelectSeq(set, LAMBDA x : x # value)

\* Map.prototype.set
MapSet(map, key, value) ==
    [k \in DOMAIN map \cup {key} |-> IF k = key THEN value ELSE map[k]]

\* Store.notify: observers.forEach(observer => observer.update(productName, price))
notify(productName, price) ==
    [i \in 1..Len(observers) |->
        [observer |-> observers[i], productName |-> productName, price |-> price]]

\* store.attach(observer)
attach(observer) ==
    /\ observers' = SetAdd(observers, observer)
    /\ storeCall' = [op |-> "attach", updates |-> <<>>]
    /\ attachCalls' = [attachCalls EXCEPT ![observer] = Min(@ + 1, 2)]
    /\ detached' = detached \ {observer}
    /\ UNCHANGED prices
    /\ UNCHANGED exceptStore

\* store.detach(observer)
detach(observer) ==
    /\ observers' = SetDelete(observers, observer)
    /\ storeCall' = [op |-> "detach", updates |-> <<>>]
    /\ attachCalls' = [attachCalls EXCEPT ![observer] = 0]
    /\ detached' = detached \cup {observer}
    /\ UNCHANGED prices
    /\ UNCHANGED exceptStore

\* store.updatePrice(productName, newPrice)
updatePrice(productName, newPrice) ==
    /\ prices' = MapSet(prices, productName, newPrice)
    /\ storeCall' = [op |-> "updatePrice", updates |-> notify(productName, newPrice)]
    /\ UNCHANGED <<observers, attachCalls, detached>>
    /\ UNCHANGED exceptStore

NextStore ==
    \/ \E observer \in Observers : attach(observer)
    \/ \E observer \in Observers : detach(observer)
    \/ \E productName \in Products, newPrice \in Prices : updatePrice(productName, newPrice)

SpecStore == Init /\ [][NextStore]_vars

\* the update() calls the last Store call made on observer o
UpdatesTo(o) == SelectSeq(storeCall.updates, LAMBDA u : u.observer = o)

\* C15: an updatePrice call makes no update() call on an observer that was never
\* attached or whose last attach/detach call was a detach, and exactly one on
\* every observer attached since, however many times attach was called for it.
C15_OneUpdatePerAttached ==
    storeCall.op = "updatePrice" =>
        \A o \in Observers :
            Len(UpdatesTo(o)) = IF attachCalls[o] > 0 THEN 1 ELSE 0

\* an updatePrice with one observer detached after use and another attached twice
C15_Witness ==
    /\ storeCall.op = "updatePrice"
    /\ \E o \in detached : UpdatesTo(o) = <<>>
    /\ \E o \in Observers : attachCalls[o] = 2 /\ Len(UpdatesTo(o)) = 1

(***************************************************************************)
(* Part V - the Proxy pattern: BankAccountProxy checks the role and the    *)
(* daily limits, logs, and forwards to its own BankAccount.                *)
(***************************************************************************)

Roles == {"admin", "accountHolder", "guest"}
Amounts == {0, 5000, 5001, 10000, 10001}

\* a proxy that lets every role through
checkAccessAnyRole(role) == TRUE

\* BankAccountProxy.checkAccess
checkAccess(role) == role \in {"admin", "accountHolder"}

\* BankAccountProxy.logOperation: the line printed, without its timestamp;
\* `amount || ''` prints nothing for a missing amount and for 0
logOperation(operation, amount) ==
    [operation |-> operation,
     amount |-> IF amount = 0 THEN "" ELSE amount,
     by |-> userRole]

Thrown(op, amount, error, log) ==
    [NoBankCall EXCEPT !.op = op, !.amount = amount, !.error = error, !.log = log]

\* new BankAccountProxy(role): a proxy with a new BankAccount
BankAccountProxy(role) ==
    /\ userRole' = role
    /\ balance' = 0
    /\ bankCall' = NoBankCall
    /\ UNCHANGED exceptBank

\* accountProxy.getBalance()
getBalance ==
    /\ IF ~checkAccess(userRole)
       THEN bankCall' = Thrown("getBalance", 0, "Acceso denegado", <<>>)
       ELSE bankCall' = [NoBankCall EXCEPT !.op = "getBalance", !.returned = TRUE,
                                            !.value = balance,
                                            !.log = <<logOperation("Balance consulted", 0)>>]
    /\ UNCHANGED <<userRole, balance>>
    /\ UNCHANGED exceptBank

\* accountProxy.deposit(amount)
deposit(amount) ==
    /\ balance + amount <= MaxBalance
    /\ IF ~checkAccess(userRole)
       THEN /\ bankCall' = Thrown("deposit", amount, "Acceso denegado", <<>>)
            /\ UNCHANGED balance
       ELSE IF amount > 10000
       THEN /\ bankCall' = Thrown("deposit", amount, "Depósito excede el límite diario", <<>>)
            /\ UNCHANGED balance
       ELSE /\ bankCall' = Thrown("deposit", amount, "", <<logOperation("Deposit", amount)>>)
            /\ balance' = balance + amount
    /\ UNCHANGED userRole
    /\ UNCHANGED exceptBank

\* accountProxy.withdraw(amount)
withdraw(amount) ==
    /\ IF ~checkAccess(userRole)
       THEN /\ bankCall' = Thrown("withdraw", amount, "Acceso denegado", <<>>)
            /\ UNCHANGED balance
       ELSE IF amount > 5000
       THEN /\ bankCall' = Thrown("withdraw", amount, "Retiro excede el límite diario", <<>>)
            /\ UNCHANGED balance
       ELSE IF amount <= balance
       THEN /\ bankCall' = Thrown("withdraw", amount, "", <<logOperation("Withdrawal", amount)>>)
            /\ balance' = balance - amount
       ELSE /\ bankCall' = Thrown("withdraw", amount, "Fondos insuficientes",
                                  <<logOperation("Withdrawal", amount)>>)
            /\ UNCHANGED balance
    /\ UNCHANGED userRole
    /\ UNCHANGED exceptBank

NextBank ==
    \/ \E role \in Roles : BankAccountProxy(role)
    \/ getBalance
    \/ \E amount \in Amounts : deposit(amount)
    \/ \E amount \in Amounts : withdraw(amount)

SpecBank == Init /\ [][NextBank]_vars

ProxyOps == {"getBalance", "deposit", "withdraw"}

\* C16: on a proxy built with a role other than admin and accountHolder every
\* getBalance, deposit and withdraw call throws 'Acceso denegado', returns no
\* balance and leaves the balance of the real account as it was.
C16_AccessDenied ==
    [][ (bankCall'.op \in ProxyOps /\ userRole \notin {"admin", "accountHolder"})
        => /\ bankCall'.error = "Acceso denegado"
           /\ ~bankCall'.returned
           /\ balance' = balance ]_vars

\* a deposit refused to a guest
C16_Witness ==
    /\ userRole = "guest"
    /\ bankCall.op = "deposit" /\ bankCall.amount = 5000
    /\ bankCall.error = "Acceso denegado"

\* C17: every getBalance, deposit and withdraw call on the proxy writes a log
\* line through logOperation, whether or not it reaches the real account.
C17_EveryCallLogged ==
    bankCall.op \in ProxyOps => bankCall.log # <<>>

(***************************************************************************)
(* Part VI - the order example.  Orden.procesar and agregarProducto are    *)
(* async: each await is a point where the call is suspended, and one       *)
(* action runs the code from one await to the next.  The services are      *)
(* injected through interfaces, so what they answer is an input.           *)
(***************************************************************************)

\* new Producto(id, nombre, precio, cantidad)
Producto(id, nombre, precio, cantidad) ==
    [id |-> id, nombre |-> nombre, precio |-> precio, cantidad |-> cantidad]

ProductosEjemplo ==
    {Producto("1", "Laptop", 1200, 1), Producto("2", "Mouse", 50, 2),
     Producto("3", "Servidor", 6000, 2)}

\* the notificadores array of the example
Notificadores == <<"NotificadorEmail", "NotificadorSMS", "NotificadorPush">>

\* what awaiting a notifier can give: it resolves, it rejects with an Error,
\* or it rejects with no reason (Promise.reject(), throw undefined)
ResultadosNotificador == {"ok", "Error", "undefined"}

\* Orden.recalcularTotal: productos.reduce((total, prod) => total + prod.precio * prod.cantidad, 0)
RECURSIVE Total(_)
Total(prods) ==
    IF prods = <<>> THEN 0
    ELSE Total(Front(prods)) + Last(prods).precio * Last(prods).cantidad

\* ValidadorFraudeBasico.validarOrden: it has no await, so it reads the order
\* when it is called
validarOrden ==
    IF precioTotal > 10000 THEN ValidacionFraude(FALSE, "Monto excede límite permitido")
    ELSE IF Len(productos) > 10 THEN ValidacionFraude(FALSE, "Demasiados productos en una sola orden")
    ELSE ValidacionFraude(TRUE, "")

\* orden.agregarProducto(producto) up to `await this.inventario.verificarStock`
agregarProducto(producto) ==
    /\ producto \notin enVuelo
    /\ Len(productos) + Cardinality(enVuelo) < MaxProductos
    /\ enVuelo' = enVuelo \cup {producto}
    /\ UNCHANGED <<productos, precioTotal, estado, ordenPc, ordenIdx, validacion,
                   invocados, fallidos, resultado, pasos, nInicio, reducciones, llamadas>>
    /\ UNCHANGED exceptOrden

\* agregarProducto after verificarStock answered
agregarProductoVerificado(producto, hayStock) ==
    /\ producto \in enVuelo
    /\ enVuelo' = enVuelo \ {producto}
    /\ IF ~hayStock
       THEN UNCHANGED <<productos, precioTotal>>
       ELSE /\ productos' = Append(productos, producto)
            /\ precioTotal' = Total(productos')
    /\ UNCHANGED <<estado, ordenPc, ordenIdx, validacion, invocados, fallidos, resultado,
                   pasos, nInicio, reducciones, llamadas>>
    /\ UNCHANGED exceptOrden

\* the catch block of procesar: this.estado = EstadoOrden.ERROR; throw error
procesarCatch ==
    /\ estado' = ERROR
    /\ resultado' = "rejected"
    /\ ordenPc' = "idle"

\* one answer of a service to the procesar call; i is the product entry
Paso(paso, i) == [paso |-> paso, i |-> i]

\* orden.procesar() up to `await this.validadorFraude.validarOrden(this)`
procesar ==
    /\ ordenPc = "idle"
    /\ llamadas < MaxProcesar
    /\ llamadas' = llamadas + 1
    /\ ordenPc' = "validarOrden"
    /\ validacion' = validarOrden
    /\ invocados' = <<>>
    /\ fallidos' = {}
    /\ resultado' = ""
    /\ pasos' = <<>>
    /\ nInicio' = Len(productos)
    /\ UNCHANGED <<productos, precioTotal, estado, enVuelo, ordenIdx, reducciones>>
    /\ UNCHANGED exceptOrden

\* the step of a for-of loop of procesar: the next call and its await, or the
\* statement after the loop
guardarOrden ==
    /\ ordenPc' = "guardarOrden"
    /\ UNCHANGED <<estado, ordenIdx, invocados, resultado, reducciones>>

actualizarInventario(i) ==
    IF i <= Len(productos)
    THEN /\ ordenPc' = "reducirStock"
         /\ ordenIdx' = i
         /\ reducciones' = [reducciones EXCEPT ![i] = @ + 1]
         /\ UNCHANGED <<estado, invocados, resultado>>
    ELSE guardarOrden

notificarCliente(i) ==
    IF i <= Len(Notificadores)
    THEN /\ ordenPc' = "notificarOrdenProcesada"
         /\ ordenIdx' = i
         /\ invocados' = Append(invocados, i)
         /\ UNCHANGED resultado
    ELSE /\ ordenPc' = "idle"
         /\ resultado' = "resolved"
         /\ UNCHANGED <<ordenIdx, invocados>>

\* procesar after validarOrden answered
procesarValidado ==
    /\ ordenPc = "validarOrden"
    /\ pasos' = Append(pasos, Paso(IF validacion.esValida THEN "validada" ELSE "fraude", 0))
    /\ IF ~validacion.esValida
       THEN procesarCatch /\ UNCHANGED <<ordenIdx, invocados, reducciones>>
       ELSE actualizarInventario(1)
    /\ UNCHANGED <<productos, precioTotal, enVuelo, validacion, fallidos, nInicio, llamadas>>
    /\ UNCHANGED exceptOrden

\* procesar after reducirStock answered
procesarStockReducido(reducido) ==
    /\ ordenPc = "reducirStock"
    /\ pasos' = Append(pasos, Paso(IF reducido THEN "reducido" ELSE "sin reducir", ordenIdx))
    /\ IF ~reducido
       THEN procesarCatch /\ UNCHANGED <<ordenIdx, invocados, reducciones>>
       ELSE actualizarInventario(ordenIdx + 1)
    /\ UNCHANGED <<productos, precioTotal, enVuelo, validacion, fallidos, nInicio, llamadas>>
    /\ UNCHANGED exceptOrden

\* procesar after guardarOrden answered
procesarGuardado(guardado) ==
    /\ ordenPc = "guardarOrden"
    /\ pasos' = Append(pasos, Paso(IF guardado THEN "guardada" ELSE "sin guardar", 0))
    /\ IF ~guardado
       THEN procesarCatch /\ UNCHANGED <<ordenIdx, invocados>>
       ELSE /\ estado' = PROCESADA
            /\ notificarCliente(1)
    /\ UNCHANGED <<productos, precioTotal, enVuelo, validacion, fallidos, nInicio,
                   reducciones, llamadas>>
    /\ UNCHANGED exceptOrden

\* the catch block of notificarCliente evaluates error.message and carries on;
\* reading .message of undefined throws a TypeError, which leaves
\* notificarCliente and reaches the catch block of procesar
notificarClienteCatch(error) == error # "undefined"

\* procesar after a notifier answered
procesarNotificado(res) ==
    /\ ordenPc = "notificarOrdenProcesada"
    /\ fallidos' = IF res = "ok" THEN fallidos ELSE fallidos \cup {ordenIdx}
    /\ IF res # "ok" /\ ~notificarClienteCatch(res)
       THEN procesarCatch /\ UNCHANGED <<ordenIdx, invocados>>
       ELSE /\ notificarCliente(ordenIdx + 1)
            /\ UNCHANGED estado
    /\ UNCHANGED <<productos, precioTotal, enVuelo, validacion, pasos, nInicio,
                   reducciones, llamadas>>
    /\ UNCHANGED exceptOrden

NextOrden ==
    \/ \E producto \in ProductosEjemplo : agregarProducto(producto)
    \/ \E producto \in ProductosEjemplo, hayStock \in BOOLEAN :
          agregarProductoVerificado(producto, hayStock)
    \/ procesar
    \/ procesarValidado
    \/ \E reducido \in BOOLEAN : procesarStockReducido(reducido)
    \/ \E guardado \in BOOLEAN : procesarGuardado(guardado)
    \/ \E res \in ResultadosNotificador : procesarNotificado(res)

SpecOrden == Init /\ [][NextOrden]_vars

\* C18: once a notifier has thrown during procesar, the order is and stays
\* PROCESADA, the call does not reject, and when it ends every notifier of the
\* order has been invoked.
C18_NotifierFailureTolerated ==
    fallidos # {} =>
        /\ estado = PROCESADA
        /\ resultado # "rejected"
        /\ ordenPc = "idle" => Len(invocados) = Len(Notificadores)

\* the answers of a procesar call that went through: the validator accepted,
\* reducirStock completed for the product entries 1..n, guardarOrden completed
PasosEnOrden(n) ==
    <<Paso("validada", 0)>> \o [i \in 1..n |-> Paso("reducido", i)] \o <<Paso("guardada", 0)>>

PasosFallidos == {"fraude", "sin reducir", "sin guardar"}

\* the procesar call has gone through its steps for every product of the order
Cumplida == pasos = PasosEnOrden(Len(productos))

\* C21: the order becomes PROCESADA only when the validator accepted it, then
\* reducirStock completed for each of its products in turn, then guardarOrden
\* completed; when one of these steps fails the procesar call rejects, the
\* order is in state ERROR and no notifier was invoked.
C21_ProcessedInOrder ==
    /\ []((pasos # <<>> /\ Last(pasos).paso \in PasosFallidos)
              => /\ resultado = "rejected" /\ ordenPc = "idle"
                 /\ estado = ERROR
                 /\ invocados = <<>>)
    /\ [][(estado' = PROCESADA /\ estado # PROCESADA) => Cumplida']_vars

\* C22: at the step that makes the order PROCESADA the order passes the rules
\* of ValidadorFraudeBasico (total not above 10000, at most 10 products).
C22_ProcessedPassesFraudRules ==
    [][(ordenPc = "guardarOrden" /\ ordenPc' # "guardarOrden" /\ estado' = PROCESADA)
        => validarOrden'.esValida]_vars

\* C23: reducirStock is called at most once for each product entry of the order.
C23_StockReducedOnce ==
    \A i \in 1..MaxProductos : reducciones[i] <= 1

(***************************************************************************)
(* Part VII - the Adapter pattern: AdapterPagosInternacional offers the    *)
(* synchronous PagoLocal interface over the promise-based PagoInternacional.*)
(* A then/catch callback runs as a microtask, after the code that          *)
(* registered it has run to completion.                                    *)
(***************************************************************************)

\* private tasaCambio: number = 1.2, as a fraction
tasaCambio == [num |-> 12, den |-> 10]

\* balance / this.tasaCambio, for the balances that divide exactly
Convertido(reported) == (reported * tasaCambio.den) \div tasaCambio.num

Cuentas == {"123456", "654321"}
Balances == {0, 1200, 2400}

\* adaptador.verificarFondos(cuenta): saldo = 0, the promise of
\* checkAccountBalance gets its callbacks, and saldo is returned
verificarFondos(cuenta, fulfilled, reported) ==
    /\ Len(microtasks) < MaxMicrotasks
    /\ ~fulfilled => reported = 0
    /\ LET saldo == 0 IN
       /\ microtasks' = Append(microtasks,
                               [cuenta |-> cuenta, fulfilled |-> fulfilled,
                                balance |-> reported, saldo |-> saldo])
       /\ fondos' = Fondos(cuenta, fulfilled, reported, saldo)
    /\ UNCHANGED saldoTardio
    /\ UNCHANGED exceptAdapter

\* the callback of the oldest settled promise runs:
\* .then(balance => { saldo = balance / this.tasaCambio }) or .catch(console.error)
runMicrotask ==
    /\ microtasks # <<>>
    /\ LET task == Head(microtasks) IN
       saldoTardio' = [cuenta |-> task.cuenta,
                       saldo |-> IF task.fulfilled THEN Convertido(task.balance)
                                 ELSE task.saldo]
    /\ microtasks' = Tail(microtasks)
    /\ UNCHANGED fondos
    /\ UNCHANGED exceptAdapter

NextAdapter ==
    \/ \E cuenta \in Cuentas, fulfilled \in BOOLEAN, reported \in Balances :
          verificarFondos(cuenta, fulfilled, reported)
    \/ runMicrotask

SpecAdapter == Init /\ [][NextAdapter]_vars

\* C19: verificarFondos(cuenta) returns the balance checkAccountBalance
\* reported for the account divided by the exchange rate.
C19_ReturnsConvertedBalance ==
    (fondos.op = "verificarFondos" /\ fondos.fulfilled)
        => fondos.returned = Convertido(fondos.balance)

(***************************************************************************)
(* Part VIII - the Singleton: TransactionLogger keeps its only instance in *)
(* a static field and builds it on the first getInstance call.             *)
(***************************************************************************)

Transactions ==
    {[id |-> "TX123", amount |-> 1000, type |-> "DEPOSIT"],
     [id |-> "TX124", amount |-> 500, type |-> "WITHDRAWAL"],
     [id |-> "TX125", amount |-> 0, type |-> "DEPOSIT"]}

\* a getInstance that builds a logger on every call
NoInstanceEver(ref) == TRUE

\* !TransactionLogger.instance
NoInstance(ref) == ref = Null

\* initializeLogger: console.log(`Initializing logger with file: ${this.logFile}`)
initializeLogger(logFile) == [line |-> "Initializing logger with file", logFile |-> logFile]

\* TransactionLogger.getInstance(), the private constructor included
getInstance ==
    /\ getCalls < MaxGetInstance
    /\ getCalls' = getCalls + 1
    /\ IF NoInstance(instance)
       THEN /\ Len(console) < MaxConsole
            /\ loggers' = Append(loggers, [logFile |-> "transactions.log"])
            /\ console' = Append(console, initializeLogger("transactions.log"))
            /\ instance' = Len(loggers')
       ELSE UNCHANGED <<loggers, console, instance>>
    /\ handed' = handed \cup {instance'}
    /\ UNCHANGED exceptLogger

\* logger.logTransaction(transaction) on a logger obtained from getInstance
logTransaction(logger, transaction) ==
    /\ logger \in handed
    /\ Len(console) < MaxConsole
    /\ console' = Append(console, [line |-> "Logging to", logFile |-> loggers[logger].logFile,
                                   id |-> transaction.id, type |-> transaction.type,
                                   amount |-> transaction.amount])
    /\ UNCHANGED <<loggers, instance, handed, getCalls>>
    /\ UNCHANGED exceptLogger

\* logger.getLogFile(): the caller keeps nothing, only the console shows it
getLogFile(logger) ==
    /\ logger \in handed
    /\ Len(console) < MaxConsole
    /\ console' = Append(console, [line |-> "getLogFile", logFile |-> loggers[logger].logFile])
    /\ UNCHANGED <<loggers, instance, handed, getCalls>>
    /\ UNCHANGED exceptLogger

NextLogger ==
    \/ getInstance
    \/ \E logger \in 1..Len(loggers), transaction \in Transactions :
          logTransaction(logger, transaction)
    \/ \E logger \in 1..Len(loggers) : getLogFile(logger)

SpecLogger == Init /\ [][NextLogger]_vars

\* the console lines printed by initializeLogger
Initializations == SelectSeq(console, LAMBDA l : l.line = "Initializing logger with file")

\* C20: all getInstance calls return the same object, and the constructor with
\* its initializeLogger runs at most once.
C20_SingleInstance ==
    /\ Cardinality(handed) <= 1
    /\ Len(loggers) <= 1
    /\ Len(Initializations) <= 1
    /\ getCalls > 0 => handed = {instance} /\ instance # Null

\* three getInstance calls have returned, all the one logger
C20_Witness ==
    /\ getCalls = 3
    /\ handed = {1}
    /\ Len(loggers) = 1 /\ Len(Initializations) = 1

(***************************************************************************)
(* Part IX - getUserStatus, with nested conditionals and simplified.       *)
(* differenceInDays(new Date(), user.lastLoginDate) is the field days.     *)
(***************************************************************************)

SubscriptionTypes == {"premium", "basic", "trial"}

StatusUsers ==
    {User(FALSE, 0, s, t) : s \in BOOLEAN, t \in SubscriptionTypes}
    \cup {User(TRUE, n, s, t) : n \in (0 - MaxDays)..MaxDays, s \in BOOLEAN, t \in SubscriptionTypes}

\* getUserStatus with the nested conditionals
getUserStatusNested(user) ==
    IF user.hasLastLogin
    THEN LET daysSinceLogin == user.days IN
         IF daysSinceLogin <= 7
         THEN IF user.isSubscribed
              THEN IF user.subscriptionType = "premium" THEN "ACTIVE_PREMIUM" ELSE "ACTIVE_BASIC"
              ELSE "ACTIVE_FREE"
         ELSE IF daysSinceLogin <= 30 THEN "INACTIVE" ELSE "DORMANT"
    ELSE "NEW"

\* a simplified version that takes the seventh day for inactive
getUserStatusFromDaySeven(user) ==
    IF ~user.hasLastLogin THEN "NEW"
    ELSE LET daysSinceLogin == user.days IN
         IF daysSinceLogin > 30 THEN "DORMANT"
         ELSE IF daysSinceLogin >= 7 THEN "INACTIVE"
         ELSE IF ~user.isSubscribed THEN "ACTIVE_FREE"
         ELSE IF user.subscriptionType = "premium" THEN "ACTIVE_PREMIUM" ELSE "ACTIVE_BASIC"

\* getUserStatus simplified, returning a UserStatus
getUserStatusSimple(user) ==
    IF ~user.hasLastLogin THEN "NEW"
    ELSE LET daysSinceLogin == user.days IN
         IF daysSinceLogin > 30 THEN "DORMANT"
         ELSE IF daysSinceLogin > 7 THEN "INACTIVE"
         ELSE IF ~user.isSubscribed THEN "ACTIVE_FREE"
         ELSE IF user.subscriptionType = "premium" THEN "ACTIVE_PREMIUM" ELSE "ACTIVE_BASIC"

\* a user arrives
newStatusUser(user) ==
    /\ statusUser' = user
    /\ statusNested' = ""
    /\ statusSimple' = ""
    /\ UNCHANGED exceptStatus

\* both versions are called with the user
getUserStatus ==
    /\ statusNested' = getUserStatusNested(statusUser)
    /\ statusSimple' = getUserStatusSimple(statusUser)
    /\ UNCHANGED statusUser
    /\ UNCHANGED exceptStatus

NextStatus ==
    \/ \E user \in StatusUsers : newStatusUser(user)
    \/ getUserStatus

SpecStatus == Init /\ [][NextStatus]_vars

\* C26: for every user the simplified getUserStatus returns the status the
\* nested one returns.
C26_SameStatus == statusSimple = statusNested

\* both versions called for a subscribed user whose last login is exactly 7 days back
C26_Witness ==
    /\ statusUser.hasLastLogin /\ statusUser.days = 7 /\ statusUser.isSubscribed
    /\ statusNested = "ACTIVE_BASIC" /\ statusSimple = "ACTIVE_BASIC"

(***************************************************************************)
(* Part X - the TaskManager of the imperative paradigm                     *)
(***************************************************************************)
TaskNames == {"Learn TypeScript", "Write Documentation"}

\* new Task(id, name): completed defaults to false
Task(id, name) == [id |-> id, name |-> name, completed |-> FALSE]

\* tasks.findIndex(task => task.id === id), 0 where the code has -1
findIndex(id) ==
    IF \E i \in 1..Len(registry) : registry[i].id = id
    THEN CHOOSE i \in 1..Len(registry) :
             /\ registry[i].id = id
             /\ \A j \in 1..(i - 1) : registry[j].id # id
    ELSE 0

\* tasks.splice(index, 1)
splice(list, index) ==
    [i \in 1..(Len(list) - 1) |-> IF i < index THEN list[i] ELSE list[i + 1]]

\* an addTask that numbers the new task by the length of the list
addTaskNumberedByLength(name) ==
    /\ nextId <= MaxNextId
    /\ registry' = Append(registry, Task(Len(registry) + 1, name))
    /\ nextId' = nextId + 1
    /\ registryCall' = [op |-> "addTask", id |-> Len(registry) + 1, result |-> TRUE]
    /\ UNCHANGED <<removedIds, exceptRegistry>>

\* TaskManager.addTask(name)
addTaskImperative(name) ==
    /\ nextId <= MaxNextId
    /\ registry' = Append(registry, Task(nextId, name))
    /\ nextId' = nextId + 1
    /\ registryCall' = [op |-> "addTask", id |-> nextId, result |-> TRUE]
    /\ UNCHANGED <<removedIds, exceptRegistry>>

\* TaskManager.completeTask(id)
completeTaskImperative(id) ==
    LET index == findIndex(id)
    IN  /\ registry' = IF index # 0
                       THEN [registry EXCEPT ![index].completed = TRUE]
                       ELSE registry
        /\ registryCall' = [op |-> "completeTask", id |-> id, result |-> index # 0]
        /\ UNCHANGED <<nextId, removedIds, exceptRegistry>>

\* TaskManager.removeTask(id)
removeTask(id) ==
    LET index == findIndex(id)
    IN  /\ registry' = IF index # 0 THEN splice(registry, index) ELSE registry
        /\ removedIds' = IF index # 0 THEN removedIds \cup {id} ELSE removedIds
        /\ registryCall' = [op |-> "removeTask", id |-> id, result |-> index # 0]
        /\ UNCHANGED <<nextId, exceptRegistry>>

NextRegistry ==
    \/ \E name \in TaskNames : addTaskImperative(name)
    \/ \E id \in 0..MaxNextId : completeTaskImperative(id)
    \/ \E id \in 0..MaxNextId : removeTask(id)

SpecRegistry == Init /\ [][NextRegistry]_vars

\* C28: the ids of the stored tasks grow strictly along the list, so they are
\* pairwise distinct, and no stored task carries the id of a task that was
\* removed before.
C28_IdsIncreaseAndAreNeverReused ==
    /\ \A i \in 1..Len(registry) : \A j \in 1..Len(registry) :
           i < j => registry[i].id < registry[j].id
    /\ \A i \in 1..Len(registry) : registry[i].id \notin removedIds

\* a task was added after an earlier one had been removed
C28_Witness ==
    /\ registryCall.op = "addTask"
    /\ removedIds # {}
    /\ Len(registry) >= 2
    /\ \E i \in 1..Len(registry) : registry[i].completed

(***************************************************************************)
(* Part XI - the composite of bank products                                *)
(***************************************************************************)
\* new BankAccount(1000, 0.01, "Savings"), new Loan(5000, 0.05): balance or
\* amount, and the commission rate in hundredths
LeafProducts ==
    [savings |-> [amount |-> 1000, rate |-> 1],
     personalLoan |-> [amount |-> 5000, rate |-> 5]]

Leaves == DOMAIN LeafProducts
ProductPackages == {"basicPackage", "premiumPackage"}
BankProducts == Leaves \cup ProductPackages

\* BankAccount.calculateCommission and Loan.calculateCommission
LeafCommission(product) ==
    (LeafProducts[product].amount * LeafProducts[product].rate) \div 100

\* this.products.indexOf(product), 0 where the code has -1
indexOf(list, product) ==
    IF \E i \in 1..Len(list) : list[i] = product
    THEN CHOOSE i \in 1..Len(list) :
             /\ list[i] = product
             /\ \A j \in 1..(i - 1) : list[j] # product
    ELSE 0

\* a frame of ProductPackage.calculateCommission: reduce is at products[index]
Frame(package) == [package |-> package, index |-> 1, sum |-> 0]

\* ProductPackage.addProduct(product)
addProduct(package, product) ==
    /\ callStack = <<>>
    /\ Len(packages[package]) < MaxPackageProducts
    /\ packages' = [packages EXCEPT ![package] = Append(@, product)]
    /\ UNCHANGED <<callStack, commission, exceptPackages>>

\* ProductPackage.removeProduct(product)
removeProduct(package, product) ==
    LET index == indexOf(packages[package], product)
    IN  /\ callStack = <<>>
        /\ packages' = IF index > 0
                       THEN [packages EXCEPT ![package] = splice(@, index)]
                       ELSE packages
        /\ UNCHANGED <<callStack, commission, exceptPackages>>

\* a caller invokes package.calculateCommission()
calculateCommission(package) ==
    /\ callStack = <<>>
    /\ callStack' = <<Frame(package)>>
    /\ commission' = [state |-> "running", of |-> package, value |-> 0]
    /\ UNCHANGED <<packages, exceptPackages>>

\* the reducer adds the commission of a leaf product
calculateCommissionOfLeaf ==
    /\ callStack # <<>>
    /\ LET top == callStack[Len(callStack)]
           list == packages[top.package]
       IN  /\ top.index <= Len(list)
           /\ list[top.index] \in Leaves
           /\ callStack' = [callStack EXCEPT ![Len(callStack)] =
                               [top EXCEPT !.index = top.index + 1,
                                           !.sum = top.sum + LeafCommission(list[top.index])]]
    /\ UNCHANGED <<packages, commission, exceptPackages>>

\* the reducer calls calculateCommission of a nested package
calculateCommissionOfPackage ==
    /\ callStack # <<>>
    /\ Len(callStack) < MaxCallStack
    /\ LET top == callStack[Len(callStack)]
           list == packages[top.package]
       IN  /\ top.index <= Len(list)
           /\ list[top.index] \in ProductPackages
           /\ callStack' = Append(callStack, Frame(list[top.index]))
    /\ UNCHANGED <<packages, commission, exceptPackages>>

\* the call of the nested package does not fit on the call stack: the engine
\* throws RangeError, which nothing catches
calculateCommissionOverflow ==
    /\ callStack # <<>>
    /\ Len(callStack) >= MaxCallStack
    /\ LET top == callStack[Len(callStack)]
           list == packages[top.package]
       IN  /\ top.index <= Len(list)
           /\ list[top.index] \in ProductPackages
    /\ callStack' = <<>>
    /\ commission' = [commission EXCEPT !.state = "RangeError"]
    /\ UNCHANGED <<packages, exceptPackages>>

\* reduce has gone through the products: the sum is returned to the caller
calculateCommissionReturn ==
    /\ callStack # <<>>
    /\ LET depth == Len(callStack)
           top == callStack[depth]
       IN  /\ top.index > Len(packages[top.package])
           /\ IF depth = 1
              THEN /\ callStack' = <<>>
                   /\ commission' = [commission EXCEPT !.state = "returned",
                                                       !.value = top.sum]
              ELSE /\ callStack' =
                          [SubSeq(callStack, 1, depth - 1) EXCEPT ![depth - 1] =
                              [@ EXCEPT !.index = @ + 1, !.sum = @ + top.sum]]
                   /\ UNCHANGED commission
    /\ UNCHANGED <<packages, exceptPackages>>

NextPackages ==
    \/ \E package \in ProductPackages : \E product \in BankProducts :
           addProduct(package, product)
    \/ \E package \in ProductPackages : \E product \in BankProducts :
           removeProduct(package, product)
    \/ \E package \in ProductPackages : calculateCommission(package)
    \/ calculateCommissionOfLeaf
    \/ calculateCommissionOfPackage
    \/ calculateCommissionOverflow
    \/ calculateCommissionReturn

SpecPackages == Init /\ [][NextPackages]_vars

\* C29: no call of ProductPackage.calculateCommission runs out of call stack:
\* whatever addProduct and removeProduct have built, the recursion comes to
\* an end by itself and the call returns a sum.
C29_CommissionTerminates == commission.state # "RangeError"

====
